---- MODULE Spec2Model ----
(***************************************************************************)
(* A model of utfset.c: a set of runes stored in a 64-ary tree that        *)
(* mirrors the UTF-8 encoding (addutf, foreach, foreach1) and the example  *)
(* consumer prunes.                                                        *)
(*                                                                         *)
(* A slot (union child) is identified by its path from the root: the root  *)
(* index followed by the child indices.  Blocks are never freed or moved,  *)
(* and each block hangs off exactly one slot, so a block is named by the   *)
(* path of the slot that points to it.  The variable set maps every slot   *)
(* that holds a non-zero value to that value; a slot outside DOMAIN set is *)
(* all-zero (a NULL pointer, an empty bitmask).                            *)
(***************************************************************************)
EXTENDS Integers, Sequences, FiniteSets, TLC

VARIABLES
    set,      \* the UTFSet: path of a slot -> the value stored in the slot
    encs,     \* history: the byte sequences addutf has consumed successfully
    ooms,     \* history: the number of addutf calls that ran out of memory
    last,     \* history: the last addutf call (bytes, result, allocations)
    pc,       \* the last operation ("init", "addutf", "foreach"); in prunes
              \* "loop", "failed", "done"; in the value walk "walk"
    visited,  \* the arguments of fcn in the last foreach, in call order
    confused, \* a slot was accessed as the union member it does not hold
    str,      \* prunes: the bytes of the string before its terminating NUL
    pos,      \* prunes: the cursor s, as a 1-based index into the string
    path,     \* value walk: root index, then the indices taken below it
    val       \* value walk: the char32_t r computed along path

vars == <<set, encs, ooms, last, pc, visited, confused, str, pos, path, val>>

-----------------------------------------------------------------------------
(* Bounds of the model *)

\* at most this many addutf calls store a new encoding or run out of memory
\* (calls that repeat a stored encoding or meet a continuation byte are free)
MaxCalls == 2
\* prunes is given strings of at most this many bytes (before the NUL)
MaxStrLen == 3
\* prunes is followed at most this many bytes past the terminating NUL
MaxOver == 2

-----------------------------------------------------------------------------
(* Constants of the program *)

\* struct block: blk[64]
NSlots == 64
\* the largest entry of clo6: the deepest chain of blocks below the root
MaxDepth == 6
\* char32_t: 32 bits
RuneBits == 32

Indices == 0 .. (NSlots - 1)

\* const char clo6[]: the number of leading ones in a 6-bit integer
clo6 ==
    << 0, 0, 0, 0, 0, 0, 0, 0, 0, 0, 0, 0, 0, 0, 0, 0,
       0, 0, 0, 0, 0, 0, 0, 0, 0, 0, 0, 0, 0, 0, 0, 0,
       1, 1, 1, 1, 1, 1, 1, 1, 1, 1, 1, 1, 1, 1, 1, 1,
       2, 2, 2, 2, 2, 2, 2, 2, 3, 3, 3, 3, 4, 4, 5, 6 >>

\* clo6[c], the table being 0-based in C
Clo6(c) == clo6[c + 1]

-----------------------------------------------------------------------------
(* union child *)

NoSet == [p \in {} |-> 0]

PtrVal == [kind |-> "ptr", bits |-> {}]
BitsVal(S) == [kind |-> "bits", bits |-> S]

\* tp->ptr == NULL
PtrIsNull(t, p) == p \notin DOMAIN t
\* reading tp->ptr of a slot that holds a non-zero bitmask
PtrMisread(t, p) == p \in DOMAIN t /\ t[p].kind # "ptr"
\* tp->bits
BitsOf(t, p) == IF p \in DOMAIN t /\ t[p].kind = "bits" THEN t[p].bits ELSE {}
\* reading tp->bits of a slot that holds a pointer
BitsMisread(t, p) == p \in DOMAIN t /\ t[p].kind # "bits"

\* tp->ptr = calloc(1, sizeof *tp->ptr), calloc having succeeded
StorePtr(t, p) == (p :> PtrVal) @@ t
\* tp->bits |= UINT64_C(1) << c
StoreBit(t, p, c) == (p :> BitsVal(BitsOf(t, p) \cup {c})) @@ t

-----------------------------------------------------------------------------
(* addutf *)

\* *s: the bytes of the call, followed by the string's terminating NUL
ByteAt(buf, k) == IF k \in DOMAIN buf THEN buf[k] ELSE 0

\* c >= 0300
IsLead(c) == c >= 192
\* c < 0200
\* (the slip c < 0300: a continuation byte taken for an ASCII byte)
IsAsciiM(c) == c < 192
IsAscii(c) == c < 128

NullRet == [null |-> TRUE, adv |-> 0]
Ret(k) == [null |-> FALSE, adv |-> k]

\* The final byte: set its bit in the bitmask and return the cursor, which is
\* one past the byte read at index k.
\* (the slip tp->bits = UINT64_C(1) << c: the other bits of the mask lost)
FinishM(w, buf) ==
    [set      |-> (w.p :> BitsVal({ByteAt(buf, w.k) % 64})) @@ w.set,
     ret      |-> Ret(w.k),
     allocs   |-> w.allocs,
     oom      |-> FALSE,
     confused |-> w.confused \/ BitsMisread(w.set, w.p)]
Finish(w, buf) ==
    [set      |-> StoreBit(w.set, w.p, ByteAt(buf, w.k) % 64),
     ret      |-> Ret(w.k),
     allocs   |-> w.allocs,
     oom      |-> FALSE,
     confused |-> w.confused \/ BitsMisread(w.set, w.p)]

\* One pass of the for loop with a block present below the slot or with calloc
\* succeeding: traverse to the child the byte at index k selects.
Descend(w, buf) ==
    LET fresh == PtrIsNull(w.set, w.p)
    IN  [set      |-> IF fresh THEN StorePtr(w.set, w.p) ELSE w.set,
         p        |-> Append(w.p, ByteAt(buf, w.k) % 64),
         n        |-> w.n - 1,
         k        |-> w.k + 1,
         budget   |-> IF fresh THEN w.budget - 1 ELSE w.budget,
         allocs   |-> IF fresh THEN w.allocs + 1 ELSE w.allocs,
         confused |-> w.confused \/ PtrMisread(w.set, w.p)]

\* calloc returned NULL: return NULL, the blocks allocated so far staying
\* (the slip of returning s, not NULL, when calloc fails)
OutOfMemoryM(w) ==
    [set      |-> w.set,
     ret      |-> Ret(w.k),
     allocs   |-> w.allocs,
     oom      |-> TRUE,
     confused |-> w.confused]
OutOfMemory(w) ==
    [set      |-> w.set,
     ret      |-> NullRet,
     allocs   |-> w.allocs,
     oom      |-> TRUE,
     confused |-> w.confused]

\* for (; n > 0; n--) { ... } and the final byte
RECURSIVE Traverse(_, _)
Traverse(w, buf) ==
    IF w.n > 0
    THEN IF PtrIsNull(w.set, w.p) /\ w.budget = 0
         THEN OutOfMemory(w)
         ELSE Traverse(Descend(w, buf), buf)
    ELSE Finish(w, buf)

\* The traversal's start: the slot of the root at index c, n blocks to go
\* through, the next byte to read at index k; calloc succeeds budget times.
Start(t, c, n, k, budget) ==
    [set |-> t, p |-> <<c>>, n |-> n, k |-> k, budget |-> budget,
     allocs |-> 0, confused |-> FALSE]

\* the ASCII branch: the 7th bit is the root index, and the same byte is read
\* again as the final byte
\* (the slips: s-- left out; c /= 64 left out of the root index)
AsciiStartM(t, c, budget) == Start(t, c \div 64, 0, 2, budget)
AsciiStartRootM(t, c, budget) == Start(t, 0, 0, 1, budget)
AsciiStart(t, c, budget) == Start(t, c \div 64, 0, 1, budget)

\* the leading-byte branch
\* (the slip n = clo6[c] + 1: one block too many on the way down)
LeadStartM(t, c, budget) == Start(t, c % 64, Clo6(c % 64) + 1, 2, budget)
LeadStart(t, c, budget) == Start(t, c % 64, Clo6(c % 64), 2, budget)

\* addutf(set, s) on the set t, with buf the bytes at s, calloc succeeding
\* budget times before it returns NULL
Addutf(t, buf, budget) ==
    LET c == ByteAt(buf, 1)
    IN  IF IsLead(c)
        THEN Traverse(LeadStart(t, c, budget), buf)
        ELSE IF IsAscii(c)
             THEN Traverse(AsciiStart(t, c, budget), buf)
             ELSE [set |-> t, ret |-> NullRet, allocs |-> 0, oom |-> FALSE,
                   confused |-> FALSE]

-----------------------------------------------------------------------------
(* foreach, foreach1 *)

Pow2(n) == 2 ^ n

\* A rune is held as <<high half, low half>>, 16 bits to the low half: the
\* sums a char32_t takes part in do not fit TLC's 32-bit signed integers.
Half == Pow2(16)
RuneOf(hi, lo) == <<hi, lo>>
RuneLess(a, b) == a[1] < b[1] \/ (a[1] = b[1] /\ a[2] < b[2])

\* char32_t r = c % (64 >> n)
\* (the slip r = c: the length bits of the leading byte kept in the value)
UnpackM(c) == RuneOf(0, c % 64)
Unpack(c) == RuneOf(0, c % (64 \div Pow2(Clo6(c))))

\* (r * 64) + c, in char32_t
\* (the slip (r * 32) + c)
RuneAppendM(r, c) ==
    LET lo == (r[2] * 32) + c
    IN  RuneOf(((r[1] * 32) + (lo \div Half)) % Pow2(RuneBits - 16), lo % Half)
RuneAppend(r, c) ==
    LET lo == (r[2] * 64) + c
    IN  RuneOf(((r[1] * 64) + (lo \div Half)) % Pow2(RuneBits - 16), lo % Half)

\* foreach1(t, n, r, fcn): the sequence of fcn's arguments.  Each
\* for (c = 0; c < 64; c++) loop is the concatenation, in ascending order of
\* c, of what its body passes to fcn; the range lo .. hi is split in two
\* halves to keep the evaluation shallow.
RECURSIVE Foreach1(_, _, _, _)
RECURSIVE Foreach1Loop(_, _, _, _, _, _)
Foreach1Loop(t, p, n, r, lo, hi) ==
    IF lo = hi
    THEN IF n > 0
         THEN Foreach1(t, Append(p, lo), n - 1, RuneAppend(r, lo))
         ELSE IF lo \in BitsOf(t, p) THEN <<RuneAppend(r, lo)>> ELSE <<>>
    ELSE LET mid == (lo + hi) \div 2
         IN  Foreach1Loop(t, p, n, r, lo, mid)
                 \o Foreach1Loop(t, p, n, r, mid + 1, hi)
Foreach1(t, p, n, r) ==
    IF p \notin DOMAIN t
    THEN <<>>  \* an all-zero slot: a NULL pointer, or a mask with no bit set
    ELSE Foreach1Loop(t, p, n, r, 0, NSlots - 1)

\* for (c = 0; c < 64; c++) foreach1(set->blk[c], clo6[c], c % (64 >> n), fcn)
RECURSIVE ForeachLoop(_, _, _)
\* (the slip of a descending loop)
ForeachLoopM(t, lo, hi) ==
    IF lo = hi
    THEN Foreach1(t, <<lo>>, Clo6(lo), Unpack(lo))
    ELSE LET mid == (lo + hi) \div 2
         IN  ForeachLoop(t, mid + 1, hi) \o ForeachLoop(t, lo, mid)
ForeachLoop(t, lo, hi) ==
    IF lo = hi
    THEN Foreach1(t, <<lo>>, Clo6(lo), Unpack(lo))
    ELSE LET mid == (lo + hi) \div 2
         IN  ForeachLoop(t, lo, mid) \o ForeachLoop(t, mid + 1, hi)

Foreach(t) == ForeachLoop(t, 0, NSlots - 1)

\* The slots foreach reads as the member they do not hold.
ForeachMisreads(t) ==
    \E p \in DOMAIN t :
        LET d == Len(p) - 1
            n == Clo6(p[1])
        IN  \/ d < n /\ PtrMisread(t, p)
            \/ d = n /\ BitsMisread(t, p)

-----------------------------------------------------------------------------
(* The byte sequences offered to addutf *)

\* The bytes following a first byte c in UTF-8's grammar, extended to the
\* leading bytes 0xF8 to 0xFF as clo6 extends it.
TailLen(c) ==
    IF c < 192 THEN 0
    ELSE IF c < 224 THEN 1
    ELSE IF c < 240 THEN 2
    ELSE IF c < 248 THEN 3
    ELSE IF c < 252 THEN 4
    ELSE IF c < 254 THEN 5
    ELSE IF c < 255 THEN 6
    ELSE 7

\* 'A', a bare continuation byte, and leading bytes of 2 and 3 byte forms
\* (0xC1 and, with 0x81 as second byte, 0xE0 start overlong forms)
FirstBytes == {65, 128, 193, 194, 224}
\* the bytes that follow a leading byte: 0x81 and 0xA0
NextBytes == {129, 160}

AlphabetForms ==
    UNION {{<<c>> \o t : t \in [1 .. TailLen(c) -> NextBytes]} : c \in FirstBytes}

\* 0x7F; a leading byte followed by an ASCII byte and a NUL; U+1F600 and the
\* 4 byte overlong form of U+0041; the 5 byte form of U+200000; the 0xFE form
\* of 2^31; the 0xFF form of 2^36
ExtraForms ==
    { <<127>>,
      <<224, 65, 0>>,
      <<240, 159, 152, 128>>,
      <<240, 128, 129, 129>>,
      <<248, 136, 128, 128, 128>>,
      <<254, 130, 128, 128, 128, 128, 128>>,
      <<255, 129, 128, 128, 128, 128, 128, 128>> }

Inputs == AlphabetForms \cup ExtraForms

-----------------------------------------------------------------------------
(* The set under any sequence of addutf and foreach calls *)

NoCall ==
    [buf |-> <<>>, ret |-> NullRet, allocs |-> 0, oom |-> FALSE, dup |-> FALSE]

\* UTFSet set = { 0 }
Init ==
    /\ set = NoSet
    /\ encs = {}
    /\ ooms = 0
    /\ last = NoCall
    /\ pc = "init"
    /\ visited = <<>>
    /\ confused = FALSE
    /\ str = <<>>
    /\ pos = 1
    /\ path = <<>>
    /\ val = RuneOf(0, 0)

\* a call of addutf on the bytes buf, calloc succeeding budget times
CallAddutf(buf, budget) ==
    LET r == Addutf(set, buf, budget)
    IN  /\ \/ Cardinality(encs) + ooms < MaxCalls
           \/ buf \in encs /\ ~r.oom
           \/ r.ret.null /\ ~r.oom
        /\ set' = r.set
        /\ encs' = IF r.ret.null THEN encs ELSE encs \cup {buf}
        /\ ooms' = IF r.oom THEN ooms + 1 ELSE ooms
        /\ last' = [buf    |-> buf,
                    ret    |-> r.ret,
                    allocs |-> r.allocs,
                    oom    |-> r.oom,
                    dup    |-> buf \in encs]
        /\ pc' = "addutf"
        /\ visited' = <<>>
        /\ confused' = (confused \/ r.confused)
        /\ UNCHANGED <<str, pos, path, val>>

\* A call allocates at most one block per byte between the first and the last
\* it reads, so a larger budget behaves as this one does.
MaxAllocs(buf) == IF Len(buf) > 2 THEN Len(buf) - 2 ELSE 0

DoAddutf ==
    \E buf \in Inputs : \E budget \in 0 .. MaxAllocs(buf) : CallAddutf(buf, budget)

\* a call of foreach, fcn recording its argument
DoForeach ==
    /\ pc \in {"init", "addutf"}
    /\ pc' = "foreach"
    /\ visited' = Foreach(set)
    /\ confused' = (confused \/ ForeachMisreads(set))
    /\ UNCHANGED <<set, encs, ooms, last, str, pos, path, val>>

Next == DoAddutf \/ DoForeach

Spec == Init /\ [][Next]_vars

-----------------------------------------------------------------------------
(* UTF-8 as the reference the claims are stated against *)

\* (r * 64) + c without char32_t's width
ExactAppend(r, c) ==
    LET lo == (r[2] * 64) + c
    IN  RuneOf((r[1] * 64) + (lo \div Half), lo % Half)

\* the value bits of the first byte of an encoding of Len(e) bytes
LeadPayload(e) ==
    IF Len(e) = 1 THEN e[1]
    ELSE IF Len(e) >= 7 THEN 0
    ELSE e[1] % Pow2(7 - Len(e))

RECURSIVE DecodeFrom(_, _, _)
DecodeFrom(e, i, r) ==
    IF i > Len(e) THEN r ELSE DecodeFrom(e, i + 1, ExactAppend(r, e[i] % 64))

\* the number an encoding stands for
Decode(e) == DecodeFrom(e, 2, RuneOf(0, LeadPayload(e)))

\* v < 2^k
Below(v, k) == IF k <= 16 THEN v[1] = 0 /\ v[2] < Pow2(k) ELSE v[1] < Pow2(k - 16)

\* the length of the shortest encoding of v
MinLen(v) ==
    IF Below(v, 7) THEN 1
    ELSE IF Below(v, 11) THEN 2
    ELSE IF Below(v, 16) THEN 3
    ELSE IF Below(v, 21) THEN 4
    ELSE IF Below(v, 26) THEN 5
    ELSE IF Below(v, 31) THEN 6
    ELSE IF Below(v, 36) THEN 7
    ELSE 8

Overlong(e) == Len(e) > MinLen(Decode(e))

\* a first byte followed by the continuation bytes its class asks for
WellFormed(e) ==
    /\ e[1] \notin 128 .. 191
    /\ Len(e) = 1 + TailLen(e[1])
    /\ \A i \in 2 .. Len(e) : e[i] \in 128 .. 191

\* a minimal form of 1 to 4 bytes
ValidUtf8(e) == WellFormed(e) /\ Len(e) <= 4 /\ ~Overlong(e)

\* v / 64
Div64(v) == RuneOf(v[1] \div 64, (((v[1] % 64) * Half) + v[2]) \div 64)

\* the k continuation bytes that hold the low 6k bits of v
RECURSIVE ContBytes(_, _)
ContBytes(v, k) ==
    IF k = 0 THEN <<>> ELSE Append(ContBytes(Div64(v), k - 1), 128 + (v[2] % 64))

RECURSIVE Shift(_, _)
Shift(v, k) == IF k = 0 THEN v ELSE Shift(Div64(v), k - 1)

\* the leading byte of a form of n bytes, n >= 2, with value bits top
LeadByte(n, top) == (256 - Pow2(8 - n)) + top

\* the shortest encoding of v
Encode(v) ==
    LET n == MinLen(v)
    IN  IF n = 1 THEN <<v[2]>>
        ELSE <<LeadByte(n, Shift(v, n - 1)[2])>> \o ContBytes(v, n - 1)

Canon(e) == Encode(Decode(e))

\* the slot and the bit addutf sets for e
Position(e) ==
    LET t == Addutf(NoSet, e, MaxDepth).set
        p == CHOOSE q \in DOMAIN t : t[q].kind = "bits"
    IN  <<p, t[p].bits>>

Count(seq, v) == Cardinality({i \in DOMAIN seq : seq[i] = v})
StrictlyIncreasing(seq) == \A i \in 1 .. (Len(seq) - 1) : RuneLess(seq[i], seq[i + 1])
Fits32(v) == Below(v, RuneBits)
\* v as a char32_t
Trunc(v) == RuneOf(v[1] % Pow2(RuneBits - 16), v[2])

-----------------------------------------------------------------------------
(* Claims *)

\* C1: after addutf calls that consumed only valid UTF-8 (minimal forms of 1
\* to 4 bytes), on a set that started empty, foreach calls fcn exactly once
\* for each distinct rune consumed and for no other value, however often a
\* rune was consumed.
C1_RoundTrip ==
    (pc = "foreach" /\ \A e \in encs : ValidUtf8(e)) =>
        /\ \A e \in encs : Count(visited, Decode(e)) = 1
        /\ \A i \in DOMAIN visited : \E e \in encs : visited[i] = Decode(e)

C1_Witness ==
    /\ pc = "foreach"
    /\ \A e \in encs : ValidUtf8(e)
    /\ <<240, 159, 152, 128>> \in encs
    /\ <<65>> \in encs
    /\ last.dup
    /\ visited = <<RuneOf(0, 65), RuneOf(1, 62976)>>

\* C2 as stated: after addutf calls none of which consumed an overlong
\* encoding, the arguments foreach passes to fcn are strictly increasing.
C2_Original ==
    (pc = "foreach" /\ \A e \in encs : ~Overlong(e)) => StrictlyIncreasing(visited)

\* C2 as amended: after addutf calls none of which consumed an overlong
\* encoding or an encoding of a value of 2^32 or more, the arguments foreach
\* passes to fcn are strictly increasing.
C2_Ascending ==
    (pc = "foreach" /\ \A e \in encs : ~Overlong(e) /\ Fits32(Decode(e))) =>
        StrictlyIncreasing(visited)

C2_Witness ==
    /\ pc = "foreach"
    /\ \A e \in encs : ~Overlong(e) /\ Fits32(Decode(e))
    /\ <<254, 130, 128, 128, 128, 128, 128>> \in encs
    /\ Len(visited) = 2

\* C3: addutf on a continuation byte (0x80 to 0xBF) returns NULL and changes
\* nothing in the set: no block is allocated and no slot changes (set' = set),
\* so that foreach, whose output Foreach(set) depends on the set alone, passes
\* fcn what it would have before the call.
C3_Malformed ==
    [][(pc' = "addutf" /\ last'.buf[1] \in 128 .. 191) =>
          /\ last'.ret.null
          /\ ~last'.oom
          /\ last'.allocs = 0
          /\ set' = set]_vars

C3_Witness ==
    /\ pc = "addutf"
    /\ last.buf = <<128>>
    /\ last.ret.null
    /\ Cardinality(encs) = 2

\* C4: a successful addutf returns the cursor 1 byte past the start for an
\* ASCII first byte and clo6[lead mod 64] + 2 bytes past it for a leading
\* byte: 2, 3 and 4 bytes for 0xC0-0xDF, 0xE0-0xEF and 0xF0-0xF7.
C4_Advance ==
    (pc = "addutf" /\ ~last.ret.null) =>
        LET c == last.buf[1]
        IN  /\ c < 128 => last.ret.adv = 1
            /\ c >= 192 => last.ret.adv = clo6[(c % 64) + 1] + 2
            /\ c \in 192 .. 223 => last.ret.adv = 2
            /\ c \in 224 .. 239 => last.ret.adv = 3
            /\ c \in 240 .. 247 => last.ret.adv = 4

C4_Witness ==
    /\ pc = "addutf"
    /\ ~last.ret.null
    /\ last.buf = <<240, 159, 152, 128>>
    /\ last.ret.adv = 4
    /\ <<65>> \in encs

\* the positions stored for the encodings in encs whose value, in char32_t,
\* is v
PositionsOf(v) == {Position(x) : x \in {y \in encs : Trunc(Decode(y)) = v}}

C6_Idempotent ==
    [][(pc' = "addutf" /\ last'.dup) =>
          /\ ~last'.ret.null
          /\ last'.allocs = 0
          /\ set' = set]_vars

C6_Witness ==
    /\ pc = "addutf"
    /\ last.dup
    /\ last.buf = <<194, 129>>
    /\ <<194, 160>> \in encs

\* C7: when calloc fails during addutf, addutf returns NULL at once; the
\* blocks it allocated before stay attached (each new non-zero slot holds a
\* pointer, one per allocation), no slot that was non-zero changes, no bit is
\* set, and foreach's output is what it was before the call.
C7_OutOfMemory ==
    [][(pc' = "addutf" /\ last'.oom) =>
          /\ last'.ret.null
          /\ \A p \in DOMAIN set : p \in DOMAIN set' /\ set'[p] = set[p]
          /\ \A p \in (DOMAIN set') \ (DOMAIN set) : set'[p] = PtrVal
          /\ Cardinality((DOMAIN set') \ (DOMAIN set)) = last'.allocs
          /\ set' # set => Foreach(set') = Foreach(set)]_vars

C7_Witness ==
    /\ pc = "addutf"
    /\ last.oom
    /\ last.ret.null
    /\ last.allocs = 2
    /\ <<65>> \in encs

\* C8: every slot is used as one kind: a slot at depth d below root index i
\* (d = 0 for the root's slot) holds a pointer only if d < clo6[i] and a
\* bitmask only if d = clo6[i], no slot lies deeper, and neither addutf nor
\* foreach has accessed a slot as the other kind.
C8_UniformKind ==
    /\ ~confused
    /\ ~ForeachMisreads(set)
    /\ \A p \in DOMAIN set :
           LET d == Len(p) - 1
               n == clo6[p[1] + 1]
           IN  /\ d <= n
               /\ set[p].kind = "ptr" <=> d < n
               /\ set[p].kind = "bits" <=> d = n

C8_Witness ==
    /\ pc = "foreach"
    /\ <<65>> \in encs
    /\ <<{<<65>>, <<224, 65, 0>>, <<240, 159, 152, 128>>} \cap encs, Len(visited)>>
           \in {<<{<<65>>, <<224, 65, 0>>}, 2>>, <<{<<65>>, <<240, 159, 152, 128>>}, 2>>}

-----------------------------------------------------------------------------
(* The value foreach computes along a path *)

\* the indices taken below the root: the lowest, the highest, and the lowest
\* that carries a 7 byte form past 32 bits
WalkIdx == {0, 4, 63}

InitValue ==
    /\ set = NoSet
    /\ encs = {}
    /\ ooms = 0
    /\ last = NoCall
    /\ pc = "walk"
    /\ visited = <<>>
    /\ confused = FALSE
    /\ str = <<>>
    /\ pos = 1
    /\ path \in {<<i>> : i \in Indices}
    /\ val = Unpack(path[1])

\* foreach1 going from a slot to its child c, or to bit c of its mask
WalkStep ==
    /\ Len(path) < Clo6(path[1]) + 2
    /\ \E c \in WalkIdx :
           /\ path' = Append(path, c)
           /\ val' = RuneAppend(val, c)
    /\ UNCHANGED <<set, encs, ooms, last, pc, visited, confused, str, pos>>

NextValue == WalkStep

SpecValue == InitValue /\ [][NextValue]_vars

-----------------------------------------------------------------------------
(* prunes *)

\* 'A', a continuation byte, and the leading bytes of a 2 and a 3 byte form
DriverBytes == {65, 128, 195, 226}
\* what the memory past the terminating NUL may hold
GarbageBytes == {0, 128}

InitDriver ==
    /\ set = NoSet
    /\ encs = {}
    /\ ooms = 0
    /\ last = NoCall
    /\ pc = "loop"
    /\ visited = <<>>
    /\ confused = FALSE
    /\ str \in UNION {[1 .. n -> DriverBytes] : n \in 0 .. MaxStrLen}
    /\ pos = 1
    /\ path = <<>>
    /\ val = RuneOf(0, 0)

\* the byte at index i: the string, its terminating NUL, and past it whatever
\* the memory holds (g)
MemAt(i, g) ==
    IF i <= Len(str) THEN str[i]
    ELSE IF i = Len(str) + 1 THEN 0
    ELSE g[i - (Len(str) + 1)]

\* the bytes addutf reads from index i on when the string is as UTF-8's
\* grammar has it: the first byte and those that follow a byte of its class
Window(i, g) == [k \in 1 .. (1 + TailLen(MemAt(i, g))) |-> MemAt(i + (k - 1), g)]

\* the longest tail of a byte the model's memory holds
MaxTail ==
    CHOOSE m \in 0 .. (MaxDepth + 1) :
        /\ \E c \in DriverBytes \cup GarbageBytes : TailLen(c) = m
        /\ \A c \in DriverBytes \cup GarbageBytes : TailLen(c) <= m

Garbage == [1 .. (MaxOver + MaxTail) -> GarbageBytes]

\* while (*s != '\0') { s = addutf(&set, s); if (s == NULL) return -1; }
PrunesAddutf ==
    /\ pc = "loop"
    /\ pos <= Len(str) + 1 + MaxOver
    /\ \E g \in Garbage, budget \in 0 .. MaxTail :
           LET r == Addutf(set, Window(pos, g), budget)
           IN  /\ MemAt(pos, g) # 0
               /\ set' = r.set
               /\ pos' = IF r.ret.null THEN pos ELSE pos + r.ret.adv
               /\ pc' = IF r.ret.null THEN "failed" ELSE "loop"
               /\ confused' = (confused \/ r.confused)
    /\ UNCHANGED <<encs, ooms, last, visited, path, val>>
    /\ UNCHANGED str

\* foreach(&set, &prune); return 0;
PrunesForeach ==
    /\ pc = "loop"
    /\ pos <= Len(str) + 1 + MaxOver
    /\ \E g \in Garbage : MemAt(pos, g) = 0
    /\ pc' = "done"
    /\ visited' = Foreach(set)
    /\ confused' = (confused \/ ForeachMisreads(set))
    /\ UNCHANGED <<set, encs, ooms, last, str, pos, path, val>>

NextDriver == PrunesAddutf \/ PrunesForeach

SpecDriver == InitDriver /\ [][NextDriver]_vars

-----------------------------------------------------------------------------
(* Claims on the value walk and on prunes *)

\* the value of a path in exact arithmetic, from i mod (64 >> clo6[i])
RECURSIVE ExactFrom(_, _, _)
ExactFrom(q, i, r) ==
    IF i > Len(q) THEN r ELSE ExactFrom(q, i + 1, ExactAppend(r, q[i]))
ExactValue(q) ==
    ExactFrom(q, 2, RuneOf(0, q[1] % (64 \div Pow2(clo6[q[1] + 1]))))

\* the value foreach computes for a path
RECURSIVE ValueFrom(_, _, _)
ValueFrom(q, i, r) ==
    IF i > Len(q) THEN r ELSE ValueFrom(q, i + 1, RuneAppend(r, q[i]))
Value(q) == ValueFrom(q, 2, Unpack(q[1]))

\* p and q part at some index, where q takes the later child or bit
Later(p, q) ==
    \E j \in 2 .. Len(p) :
        /\ \A k \in 1 .. (j - 1) : p[k] = q[k]
        /\ p[j] < q[j]

\* the paths down to a bit below the root index i
FullPaths(i) == {<<i>> \o t : t \in [1 .. (clo6[i + 1] + 1) -> WalkIdx]}

IsFull(p) == Len(p) = clo6[p[1] + 1] + 2

ValueOrder ==
    /\ val = ExactValue(path)
    /\ IsFull(path) =>
           \A q \in FullPaths(path[1]) :
               /\ Later(path, q) => RuneLess(val, Value(q))
               /\ q # path => Value(q) # val

\* C9 as stated: for every root index 0..63 the value foreach computes along
\* a path never wraps modulo 2^32, a path through a later child or bit yields
\* a strictly greater value than one through an earlier child or bit, the
\* indices before it being the same, and so two different paths below one
\* root index never yield the same value.
C9_Original == pc = "walk" => ValueOrder

\* C9 as amended: the same for the root indices 0..61.
C9_ValueOrder == (pc = "walk" /\ path[1] <= 61) => ValueOrder

C9_Witness ==
    /\ pc = "walk"
    /\ path = <<61, 63, 63, 63, 63, 63>>
    /\ val = RuneOf(32767, 65535)

\* C10: for every NUL-terminated string given to prunes, the cursor is at or
\* before the terminating NUL at every step, and foreach is called only with
\* the cursor on the terminator: addutf never takes the terminator for a
\* continuation byte nor moves the cursor past it.
C10_CursorBound ==
    pc \in {"loop", "failed", "done"} =>
        /\ pos <= Len(str) + 1
        /\ pc = "done" => pos = Len(str) + 1

====
